---- MODULE Spec2Model ----
(***************************************************************************)
(* lmdiff: a model of main.go (main, processFile), pkg/diff/diff.go and    *)
(* pkg/prompt/prompt.go.                                                   *)
(*                                                                         *)
(* A string is a sequence of symbols.  A symbol is a path component        *)
(* ("a", "d", "s", ".git"), the separator "/", or a white-space character. *)
(* A path is a string of components separated by "/"; a tool's standard    *)
(* output is a string of paths separated by "\n".                          *)
(***************************************************************************)
EXTENDS Integers, Sequences, FiniteSets, TLC

\* ------------------------------------------------------------------ bounds
\* The most paths the two git listings name together.
MaxLines == 2
\* The most paths that are unreadable during one directory walk.
MaxBad == 1

\* ----------------------------------------------------------------- strings
NL == "\n"
Whitespace == {" ", NL}
Empty == << >>

\* strings.TrimSpace: leading and trailing white space removed.
RECURSIVE TrimLeft(_)
TrimLeft(s) ==
    IF s # Empty /\ Head(s) \in Whitespace THEN TrimLeft(Tail(s)) ELSE s

RECURSIVE TrimRight(_)
TrimRight(s) ==
    IF s # Empty /\ s[Len(s)] \in Whitespace
    THEN TrimRight(SubSeq(s, 1, Len(s) - 1))
    ELSE s

TrimSpace(s) == TrimRight(TrimLeft(s))

\* strings.Split(s, "\n"): the fields between the separators; one (empty)
\* field for the empty string.
RECURSIVE Split(_)
Split(s) ==
    IF \A k \in 1..Len(s) : s[k] # NL
    THEN << s >>
    ELSE LET k == CHOOSE n \in 1..Len(s) :
                     s[n] = NL /\ \A m \in 1..(n - 1) : s[m] # NL
         IN  << SubSeq(s, 1, k - 1) >> \o Split(SubSeq(s, k + 1, Len(s)))

\* What git prints for a listing: every path followed by a newline.
RECURSIVE Render(_)
Render(lines) ==
    IF lines = << >> THEN Empty ELSE Head(lines) \o << NL >> \o Render(Tail(lines))

\* ------------------------------------------------------------- file system
GitDir == ".git"
Sep == "/"

\* filepath.Join(path, name)
Join(path, name) == path \o << Sep, name >>

\* os.FileInfo.Name(): the last component of the path.
Base(path) == path[Len(path)]

\* The paths a working tree of the model may hold.
Universe ==
    { << "d" >>, << "d", Sep, "a" >>,
      << "d", Sep, GitDir >>, << "d", Sep, GitDir, Sep, "a" >>,
      << "d", Sep, "s" >>, << "d", Sep, "s", Sep, "a" >>,
      << "d", Sep, "s", Sep, GitDir >>,
      << GitDir >>, << GitDir, Sep, "a" >> }

\* The working tree main is run in: a regular file "a" and a directory "d"
\* holding the file d/a, the empty directory d/s and d/.git/a.
MainTree ==
    [p \in Universe \cup { << "a" >> } |->
        IF p \in { << "d" >>, << "d", Sep, GitDir >>, << "d", Sep, "s" >> }
        THEN "dir"
        ELSE IF p \in { << "a" >>, << "d", Sep, "a" >>,
                        << "d", Sep, GitDir, Sep, "a" >> }
        THEN "file"
        ELSE "absent"]

\* Directory entries come back from the operating system in lexical order.
NameOrder == << GitDir, "a", "d", "s" >>

Kinds == {"absent", "file", "dir"}

Parent(path) == SubSeq(path, 1, Len(path) - 2)

\* A working tree: every path that exists lies in a directory that exists.
TreesOver(U) ==
    { t \in [U -> Kinds] :
        \A p \in U : (t[p] # "absent" /\ Len(p) > 1) => t[Parent(p)] = "dir" }

KindOf(tree, path) == IF path \in DOMAIN tree THEN tree[path] ELSE "absent"

\* readDirNames: the names in a directory, sorted.
ReadDirNames(tree, path) ==
    SelectSeq(NameOrder, LAMBDA n : KindOf(tree, Join(path, n)) # "absent")

\* WalkFn without the ".git" test.
WalkFnNoSkip(tree, path, lstatErr, files) ==
    IF lstatErr
    THEN [verdict |-> "err", files |-> files]
    ELSE IF KindOf(tree, path) # "dir"
    THEN [verdict |-> "nil", files |-> Append(files, path)]
    ELSE [verdict |-> "nil", files |-> files]

\* The callback GetAllFilesInDirectory hands to filepath.Walk.
\* lstatErr: the error Walk passes in.  Returns the callback's verdict and
\* the list of files after the call.
WalkFn(tree, path, lstatErr, files) ==
    IF lstatErr
    THEN [verdict |-> "err", files |-> files]
    ELSE IF KindOf(tree, path) = "dir" /\ Base(path) = GitDir
    THEN [verdict |-> "SkipDir", files |-> files]
    ELSE IF KindOf(tree, path) # "dir"
    THEN [verdict |-> "nil", files |-> Append(files, path)]
    ELSE [verdict |-> "nil", files |-> files]

\* filepath.walk and its loop over a directory's names.  bad: the paths on
\* which lstat (and reading the directory) fails.
RECURSIVE WalkPath(_, _, _, _), WalkNames(_, _, _, _, _)
WalkPath(tree, bad, path, files) ==
    IF KindOf(tree, path) # "dir"
    THEN WalkFn(tree, path, FALSE, files)
    ELSE LET r == WalkFn(tree, path, FALSE, files)
         IN  IF r.verdict # "nil"
             THEN r
             ELSE WalkNames(tree, bad, path, ReadDirNames(tree, path), r.files)

WalkNames(tree, bad, path, names, files) ==
    IF names = << >>
    THEN [verdict |-> "nil", files |-> files]
    ELSE LET filename == Join(path, Head(names))
             r == IF filename \in bad
                  THEN WalkFn(tree, filename, TRUE, files)
                  ELSE WalkPath(tree, bad, filename, files)
         IN  IF r.verdict = "err"
             THEN r
             ELSE WalkNames(tree, bad, path, Tail(names), r.files)

\* filepath.Walk(root, fn)
Walk(tree, bad, root) ==
    LET r == IF root \in bad \/ KindOf(tree, root) = "absent"
             THEN WalkFn(tree, root, TRUE, << >>)
             ELSE WalkPath(tree, bad, root, << >>)
    IN  IF r.verdict = "SkipDir" THEN [verdict |-> "nil", files |-> r.files] ELSE r

\* GetAllFilesInDirectory returning what it has when the walk fails.
GetAllFilesInDirectoryPartial(tree, bad, dirPath) ==
    [err |-> FALSE, files |-> Walk(tree, bad, dirPath).files]

\* GetAllFilesInDirectory(dirPath): (files, nil) or (nil, error).
GetAllFilesInDirectory(tree, bad, dirPath) ==
    LET r == Walk(tree, bad, dirPath)
    IN  IF r.verdict = "err"
        THEN [err |-> TRUE, files |-> << >>]
        ELSE [err |-> FALSE, files |-> r.files]

\* ------------------------------------------------------- the outside world
\* The paths the two git listings may name.
ListPaths == { << "a" >>, << "d" >> }

RECURSIVE SeqsUpTo(_, _)
SeqsUpTo(S, n) ==
    IF n = 0
    THEN { << >> }
    ELSE LET shorter == SeqsUpTo(S, n - 1)
         IN  shorter \cup { Append(q, x) : q \in { r \in shorter : Len(r) = n - 1 }, x \in S }

\* The listings of at most n paths.
Listings(n) == SeqsUpTo(ListPaths, n)

\* lines with a blank line put in before line k.
InsertBlank(lines, k) ==
    SubSeq(lines, 1, k - 1) \o << Empty >> \o SubSeq(lines, k, Len(lines))

\* The standard output of a listing: every path followed by a newline, with
\* at most one blank line between two paths; with nothing to list, nothing
\* or a blank line.
Outputs(lines) ==
    IF lines = << >>
    THEN { Empty, << NL >> }
    ELSE { Render(lines) } \cup { Render(InsertBlank(lines, k)) : k \in 2..Len(lines) }

\* The content of a path at the revision and in the working tree, and the
\* text of the diff.
RevContent(path) == << "rev:" >> \o path
LocalContent(path) == << "local:" >> \o path
DiffText == << "diff" >>

\* cmd.Run of a git command that prints out when it succeeds.
Runs(out) == { [err |-> FALSE, out |-> out], [err |-> TRUE, out |-> Empty] }

\* os.ReadFile(path): only a regular file can be read, and reading may fail.
ReadFiles(tree, path) ==
    { [err |-> TRUE, data |-> Empty] } \cup
    ( IF KindOf(tree, path) = "file"
      THEN { [err |-> FALSE, data |-> LocalContent(path)] }
      ELSE { } )

\* os.Stat(path): fails on a missing path, and may fail on any.
Stats(tree, path) ==
    { [err |-> TRUE, isDir |-> FALSE] } \cup
    ( IF KindOf(tree, path) # "absent"
      THEN { [err |-> FALSE, isDir |-> KindOf(tree, path) = "dir"] }
      ELSE { } )

\* The sets of paths that may be unreadable during one walk.
BadSets(U) == { b \in SUBSET U : Cardinality(b) <= MaxBad }

\* The paths a walk from root tries to read: root, and every path that
\* exists below it with only directories not named ".git" from root down to
\* its parent.
IsPrefix(p, q) == Len(p) <= Len(q) /\ SubSeq(q, 1, Len(p)) = p

Tried(tree, root) ==
    { root } \cup
    { p \in DOMAIN tree :
        /\ IsPrefix(root \o << Sep >>, p)
        /\ tree[p] # "absent"
        /\ \A q \in DOMAIN tree \cup { root } :
              (IsPrefix(root, q) /\ IsPrefix(q \o << Sep >>, p))
                  => (KindOf(tree, q) = "dir" /\ Base(q) # GitDir) }

\* history: the traversal meets a path it cannot read.
WalkFails(tree, bad, root) ==
    \/ KindOf(tree, root) = "absent"
    \/ Tried(tree, root) \cap bad # { }

\* One external call, as recorded in the history of calls.
Call(op, arg, err) == [op |-> op, arg |-> arg, err |-> err]

\* -------------------------------------------------------------- pkg/diff
\* GetGitDiff(branch), given how "git diff branch" ran.
GetGitDiff(run) ==
    IF run.err
    THEN [err |-> TRUE, val |-> Empty, calls |-> << Call("git diff", Empty, TRUE) >>]
    ELSE [err |-> FALSE, val |-> run.out, calls |-> << Call("git diff", Empty, FALSE) >>]

\* GetUntrackedFiles without the test for a lone empty field.
GetUntrackedFilesRaw(run) ==
    IF run.err
    THEN [err |-> TRUE, files |-> << >>, calls |-> << Call("git ls-files", Empty, TRUE) >>]
    ELSE [err |-> FALSE, files |-> Split(TrimSpace(run.out)),
          calls |-> << Call("git ls-files", Empty, FALSE) >>]

\* GetUntrackedFiles(), given how "git ls-files --others" ran.
GetUntrackedFiles(run) ==
    IF run.err
    THEN [err |-> TRUE, files |-> << >>, calls |-> << Call("git ls-files", Empty, TRUE) >>]
    ELSE LET files == Split(TrimSpace(run.out))
         IN  [err |-> FALSE,
              files |-> IF Len(files) = 1 /\ files[1] = Empty THEN << >> ELSE files,
              calls |-> << Call("git ls-files", Empty, FALSE) >>]

\* GetChangedFiles(branch, includeUntracked), given how "git diff --name-only"
\* ran and how the untracked listing would run.
GetChangedFiles(inclUntracked, run, untrackedRun) ==
    IF run.err
    THEN [err |-> TRUE, files |-> << >>,
          calls |-> << Call("git diff --name-only", Empty, TRUE) >>]
    ELSE LET split == Split(TrimSpace(run.out))
             files == IF Len(split) = 1 /\ split[1] = Empty THEN << >> ELSE split
             first == << Call("git diff --name-only", Empty, FALSE) >>
         IN  IF inclUntracked
             THEN LET u == GetUntrackedFiles(untrackedRun)
                  IN  IF u.err
                      THEN [err |-> TRUE, files |-> << >>, calls |-> first \o u.calls]
                      ELSE [err |-> FALSE, files |-> files \o u.files,
                            calls |-> first \o u.calls]
             ELSE [err |-> FALSE, files |-> files, calls |-> first]

\* GetFileContent(branch, filename), given how "git show" ran.
GetFileContent(filename, run) ==
    IF run.err
    THEN [err |-> TRUE, val |-> Empty]
    ELSE [err |-> FALSE, val |-> run.out]

\* GetLocalFileContent(filename), given what os.ReadFile returned.
GetLocalFileContent(filename, rd) ==
    IF rd.err
    THEN [err |-> TRUE, val |-> Empty]
    ELSE [err |-> FALSE, val |-> rd.data]

\* IsDirectory(path), given what os.Stat returned.
IsDirectory(path, st) ==
    IF st.err
    THEN [err |-> TRUE, val |-> FALSE]
    ELSE [err |-> FALSE, val |-> st.isDir]

\* ------------------------------------------------------------- pkg/prompt
\* ConstructLLMPrompt(diff, changedFiles, files): the document, by its
\* elements: the <changedFiles> names, the <files> contents, the <gitDiff>.
ConstructLLMPrompt(diff, changed, files) ==
    [changedFiles |-> SelectSeq(changed, LAMBDA f : TrimSpace(f) # Empty),
     files |-> files,
     gitDiff |-> diff]

\* ----------------------------------------------------------------- main.go
Placeholder == << "Error retrieving file content." >>

\* A line of the log.
Warning(kind, path) == [kind |-> kind, path |-> path]

\* processFile returning what GetFileContent returned, error or not.
processFileNoFallback(file, show, rd) ==
    [content |-> GetFileContent(file, show).val,
     log |-> << >>,
     calls |-> << Call("git show", file, show.err) >>]

\* processFile reading the working tree first.
processFileLocalFirst(file, show, rd) ==
    LET l == GetLocalFileContent(file, rd)
    IN  IF l.err
        THEN LET c == GetFileContent(file, show)
             IN  IF c.err
                 THEN [content |-> Placeholder,
                       log |-> << Warning("content", file) >>,
                       calls |-> << Call("read", file, TRUE),
                                    Call("git show", file, TRUE) >>]
                 ELSE [content |-> c.val,
                       log |-> << >>,
                       calls |-> << Call("read", file, TRUE),
                                    Call("git show", file, FALSE) >>]
        ELSE [content |-> l.val,
              log |-> << >>,
              calls |-> << Call("read", file, FALSE) >>]

\* processFile logging a warning whenever "git show" fails.
processFileWarnsOnFallback(file, show, rd) ==
    LET c == GetFileContent(file, show)
    IN  IF c.err
        THEN LET l == GetLocalFileContent(file, rd)
             IN  [content |-> IF l.err THEN Placeholder ELSE l.val,
                  log |-> << Warning("content", file) >>,
                  calls |-> << Call("git show", file, TRUE),
                               Call("read", file, l.err) >>]
        ELSE [content |-> c.val,
              log |-> << >>,
              calls |-> << Call("git show", file, FALSE) >>]

\* processFile(file, branch), given how "git show" ran and what os.ReadFile
\* would return: the content, the lines logged and the calls made.
processFile(file, show, rd) ==
    LET c == GetFileContent(file, show)
    IN  IF c.err
        THEN LET l == GetLocalFileContent(file, rd)
             IN  IF l.err
                 THEN [content |-> Placeholder,
                       log |-> << Warning("content", file) >>,
                       calls |-> << Call("git show", file, TRUE),
                                    Call("read", file, TRUE) >>]
                 ELSE [content |-> l.val,
                       log |-> << >>,
                       calls |-> << Call("git show", file, TRUE),
                                    Call("read", file, FALSE) >>]
        ELSE [content |-> c.val,
              log |-> << >>,
              calls |-> << Call("git show", file, FALSE) >>]

\* A map write that keeps the value a key already has.
MapPutKeepFirst(m, file, content) ==
    [p \in DOMAIN m \cup {file} |-> IF p \in DOMAIN m THEN m[p] ELSE content]

\* originalFiles[file] = content
MapPut(m, file, content) ==
    [p \in DOMAIN m \cup {file} |-> IF p = file THEN content ELSE m[p]]

VARIABLES
    pc,               \* where main is
    includeUntracked, \* --include-untracked
    shouldCopy,       \* --copy || -c
    fs,               \* the working tree
    trackedPaths,     \* the paths "git diff --name-only" listed
    untrackedPaths,   \* the paths "git ls-files --others" listed
    trackedOut,       \* the standard output of "git diff --name-only"
    untrackedOut,     \* the standard output of "git ls-files --others"
    gitDiff,          \* main's gitDiff
    changedFiles,     \* main's changedFiles
    i,                \* the index of the range over changedFiles
    dirFiles,         \* main's dirFiles
    j,                \* the index of the range over dirFiles
    originalFiles,    \* main's originalFiles
    promptText,       \* main's promptText: << >>, or the one document
    stdout,           \* what was printed
    clipboard,        \* what pbcopy received
    diagnostics,      \* the lines log.Printf wrote
    calls,            \* history: the external calls made, in order
    writes,           \* history: the results of processFile, in order
    lastWalk          \* history: the last directory walk: the entry of
                      \* changedFiles it was for, where it started,
                      \* whether it met an unreadable path, the files the
                      \* callback had appended when it ended, and what
                      \* GetAllFilesInDirectory returned

vars == << pc, includeUntracked, shouldCopy, fs, trackedPaths, untrackedPaths,
           trackedOut, untrackedOut, gitDiff, changedFiles, i, dirFiles, j,
           originalFiles, promptText, stdout, clipboard, diagnostics, calls,
           writes, lastWalk >>

NoWalk ==
    [entry |-> 0, root |-> Empty, fails |-> FALSE, partial |-> << >>, err |-> FALSE,
     files |-> << >>]

InitRest ==
    /\ trackedPaths = << >> /\ untrackedPaths = << >>
    /\ trackedOut = Empty /\ untrackedOut = Empty
    /\ gitDiff = Empty
    /\ changedFiles = << >> /\ i = 1
    /\ dirFiles = << >> /\ j = 1
    /\ originalFiles = << >>
    /\ promptText = << >> /\ stdout = << >> /\ clipboard = << >>
    /\ diagnostics = << >> /\ calls = << >> /\ writes = << >>
    /\ lastWalk = NoWalk

Init ==
    /\ pc = "GetGitDiff"
    /\ InitRest
    /\ includeUntracked \in BOOLEAN
    /\ shouldCopy \in BOOLEAN
    /\ fs = MainTree

env == << includeUntracked, shouldCopy, fs >>
listing == << trackedPaths, untrackedPaths, trackedOut, untrackedOut >>

\* main.go 47-50
DoGetGitDiff ==
    /\ pc = "GetGitDiff"
    /\ \E run \in Runs(DiffText) :
        LET r == GetGitDiff(run)
        IN  /\ calls' = calls \o r.calls
            /\ gitDiff' = r.val
            /\ pc' = IF r.err THEN "fatal" ELSE "GetChangedFiles"
    /\ UNCHANGED << env, listing, changedFiles, i, dirFiles, j, originalFiles,
                    promptText, stdout, clipboard, diagnostics, writes, lastWalk >>

\* main.go 53-56
DoGetChangedFiles ==
    /\ pc = "GetChangedFiles"
    /\ \E tl \in Listings(MaxLines), terr \in BOOLEAN :
        \E tout \in Outputs(tl) :
        LET run == IF terr THEN [err |-> TRUE, out |-> Empty]
                           ELSE [err |-> FALSE, out |-> tout]
        IN  /\ trackedPaths' = tl
            /\ trackedOut' = tout
            /\ IF includeUntracked /\ ~terr
               THEN \E ul \in Listings(MaxLines - Len(tl)), uerr \in BOOLEAN :
                       \E uout \in Outputs(ul) :
                       LET urun == IF uerr THEN [err |-> TRUE, out |-> Empty]
                                           ELSE [err |-> FALSE, out |-> uout]
                           r == GetChangedFiles(includeUntracked, run, urun)
                       IN  /\ untrackedPaths' = ul
                           /\ untrackedOut' = uout
                           /\ calls' = calls \o r.calls
                           /\ changedFiles' = r.files
                           /\ pc' = IF r.err THEN "fatal" ELSE "range"
               ELSE LET r == GetChangedFiles(includeUntracked, run,
                                             [err |-> TRUE, out |-> Empty])
                    IN  /\ UNCHANGED << untrackedPaths, untrackedOut >>
                        /\ calls' = calls \o r.calls
                        /\ changedFiles' = r.files
                        /\ pc' = IF r.err THEN "fatal" ELSE "range"
    /\ UNCHANGED << env, gitDiff, i, dirFiles, j, originalFiles, promptText,
                    stdout, clipboard, diagnostics, writes, lastWalk >>

\* One result of processFile, as recorded in the history of writes: the
\* entry of changedFiles it was for, and how the two sources answered.
Write(entry, file, show, rd, r) ==
    [entry |-> entry, file |-> file, showErr |-> show.err,
     bothErr |-> show.err /\ rd.err,
     content |-> r.content, log |-> r.log, calls |-> r.calls]

\* main.go 62, 94: the range over changedFiles is over.
RangeDone ==
    /\ pc = "range"
    /\ i > Len(changedFiles)
    /\ pc' = "ConstructLLMPrompt"
    /\ UNCHANGED << env, listing, gitDiff, changedFiles, i, dirFiles, j,
                    originalFiles, promptText, stdout, clipboard, diagnostics,
                    calls, writes, lastWalk >>

\* main.go 63-65
SkipEmpty ==
    /\ pc = "range"
    /\ i <= Len(changedFiles)
    /\ changedFiles[i] = Empty
    /\ i' = i + 1
    /\ UNCHANGED << env, listing, gitDiff, changedFiles, pc, dirFiles, j,
                    originalFiles, promptText, stdout, clipboard, diagnostics,
                    calls, writes, lastWalk >>

\* ClassifyFails with log.Fatalf in the place of log.Printf.
ClassifyFailsFatal ==
    /\ pc = "range"
    /\ i <= Len(changedFiles)
    /\ changedFiles[i] # Empty
    /\ LET file == changedFiles[i]
       IN  \E st \in Stats(fs, file) :
              LET d == IsDirectory(file, st)
              IN  /\ d.err
                  /\ calls' = Append(calls, Call("stat", file, TRUE))
                  /\ diagnostics' = Append(diagnostics, Warning("classify", file))
                  /\ pc' = "fatal"
    /\ UNCHANGED << env, listing, gitDiff, changedFiles, i, dirFiles, j,
                    originalFiles, promptText, stdout, clipboard, writes,
                    lastWalk >>

\* main.go 68-72: IsDirectory fails.
ClassifyFails ==
    /\ pc = "range"
    /\ i <= Len(changedFiles)
    /\ changedFiles[i] # Empty
    /\ LET file == changedFiles[i]
       IN  \E st \in Stats(fs, file) :
              LET d == IsDirectory(file, st)
              IN  /\ d.err
                  /\ calls' = Append(calls, Call("stat", file, TRUE))
                  /\ diagnostics' = Append(diagnostics, Warning("classify", file))
                  /\ i' = i + 1
    /\ UNCHANGED << env, listing, gitDiff, changedFiles, pc, dirFiles, j,
                    originalFiles, promptText, stdout, clipboard, writes,
                    lastWalk >>

\* main.go 68, 74-80: a directory is expanded, or the walk fails.
ExpandDirectory ==
    /\ pc = "range"
    /\ i <= Len(changedFiles)
    /\ changedFiles[i] # Empty
    /\ LET file == changedFiles[i]
       IN  \E st \in Stats(fs, file), bad \in BadSets(Universe) :
              LET d == IsDirectory(file, st)
                  r == GetAllFilesInDirectory(fs, bad, file)
              IN  /\ ~d.err
                  /\ d.val
                  /\ calls' = calls \o << Call("stat", file, FALSE),
                                          Call("walk", file, r.err) >>
                  /\ lastWalk' = [entry |-> i, root |-> file,
                                  fails |-> WalkFails(fs, bad, file),
                                  partial |-> Walk(fs, bad, file).files,
                                  err |-> r.err,
                                  files |-> r.files]
                  /\ IF r.err
                     THEN /\ diagnostics' = Append(diagnostics, Warning("walk", file))
                          /\ i' = i + 1
                          /\ UNCHANGED << pc, dirFiles, j >>
                     ELSE /\ dirFiles' = r.files
                          /\ j' = 1
                          /\ pc' = "dirFiles"
                          /\ UNCHANGED << diagnostics, i >>
    /\ UNCHANGED << env, listing, gitDiff, changedFiles, originalFiles,
                    promptText, stdout, clipboard, writes >>

\* main.go 68, 87-91: a regular file.
ProcessRegularFile ==
    /\ pc = "range"
    /\ i <= Len(changedFiles)
    /\ changedFiles[i] # Empty
    /\ LET file == changedFiles[i]
       IN  \E st \in Stats(fs, file), show \in Runs(RevContent(file)),
              rd \in ReadFiles(fs, file) :
              LET d == IsDirectory(file, st)
                  r == processFile(file, show, rd)
              IN  /\ ~d.err
                  /\ ~d.val
                  /\ calls' = Append(calls, Call("stat", file, FALSE)) \o r.calls
                  /\ diagnostics' = diagnostics \o r.log
                  /\ originalFiles' = MapPut(originalFiles, file, r.content)
                  /\ writes' = Append(writes, Write(i, file, show, rd, r))
                  /\ i' = i + 1
    /\ UNCHANGED << env, listing, gitDiff, changedFiles, pc, dirFiles, j,
                    promptText, stdout, clipboard, lastWalk >>

\* main.go 83-86: one file of the expanded directory.
ProcessDirFile ==
    /\ pc = "dirFiles"
    /\ j <= Len(dirFiles)
    /\ LET dirFile == dirFiles[j]
       IN  \E show \in Runs(RevContent(dirFile)), rd \in ReadFiles(fs, dirFile) :
              LET r == processFile(dirFile, show, rd)
              IN  /\ calls' = calls \o r.calls
                  /\ diagnostics' = diagnostics \o r.log
                  /\ originalFiles' = MapPut(originalFiles, dirFile, r.content)
                  /\ writes' = Append(writes, Write(i, dirFile, show, rd, r))
                  /\ j' = j + 1
    /\ UNCHANGED << env, listing, gitDiff, changedFiles, pc, i, dirFiles,
                    promptText, stdout, clipboard, lastWalk >>

\* main.go 83, 86: the range over dirFiles is over.
DirFilesDone ==
    /\ pc = "dirFiles"
    /\ j > Len(dirFiles)
    /\ pc' = "range"
    /\ i' = i + 1
    /\ UNCHANGED << env, listing, gitDiff, changedFiles, dirFiles, j,
                    originalFiles, promptText, stdout, clipboard, diagnostics,
                    calls, writes, lastWalk >>

\* main.go 95-98
DoConstructLLMPrompt ==
    /\ pc = "ConstructLLMPrompt"
    /\ LET text == ConstructLLMPrompt(gitDiff, changedFiles, originalFiles)
       IN  /\ promptText' = << text >>
           /\ stdout' = Append(stdout, text)
    /\ pc' = "copy"
    /\ UNCHANGED << env, listing, gitDiff, changedFiles, i, dirFiles, j,
                    originalFiles, clipboard, diagnostics, calls, writes,
                    lastWalk >>

CopiedNotice == [notice |-> "Prompt copied to clipboard."]

\* main.go 101-115
DoCopy ==
    /\ pc = "copy"
    /\ IF ~shouldCopy
       THEN /\ pc' = "exit0"
            /\ UNCHANGED << stdout, clipboard, calls >>
       ELSE \E pipeErr \in BOOLEAN, startErr \in BOOLEAN, writeErr \in BOOLEAN :
               IF pipeErr
               THEN /\ pc' = "fatal"
                    /\ calls' = Append(calls, Call("pbcopy pipe", Empty, TRUE))
                    /\ UNCHANGED << stdout, clipboard >>
               ELSE IF startErr
               THEN /\ pc' = "fatal"
                    /\ calls' = calls \o << Call("pbcopy pipe", Empty, FALSE),
                                            Call("pbcopy start", Empty, TRUE) >>
                    /\ UNCHANGED << stdout, clipboard >>
               ELSE /\ pc' = "exit0"
                    /\ calls' = calls \o << Call("pbcopy pipe", Empty, FALSE),
                                            Call("pbcopy start", Empty, FALSE),
                                            Call("pbcopy write", Empty, writeErr) >>
                    /\ clipboard' = IF writeErr THEN clipboard ELSE promptText
                    /\ stdout' = Append(stdout, CopiedNotice)
    /\ UNCHANGED << env, listing, gitDiff, changedFiles, i, dirFiles, j,
                    originalFiles, promptText, diagnostics, writes, lastWalk >>

Next ==
    \/ DoGetGitDiff
    \/ DoGetChangedFiles
    \/ RangeDone
    \/ SkipEmpty
    \/ ClassifyFails
    \/ ExpandDirectory
    \/ ProcessRegularFile
    \/ ProcessDirFile
    \/ DirFilesDone
    \/ DoConstructLLMPrompt
    \/ DoCopy

Spec == Init /\ [][Next]_vars

\* ------------------------------------------- GetAllFilesInDirectory alone
InitWalk ==
    /\ pc = "walk"
    /\ InitRest
    /\ includeUntracked = FALSE
    /\ shouldCopy = FALSE
    /\ fs \in TreesOver(Universe)

\* One call of GetAllFilesInDirectory, on any path of any working tree.
WalkOnce ==
    /\ pc = "walk"
    /\ pc' = "walked"
    /\ \E root \in Universe, bad \in BadSets(Universe) :
          LET r == GetAllFilesInDirectory(fs, bad, root)
          IN  lastWalk' = [entry |-> 0, root |-> root,
                           fails |-> WalkFails(fs, bad, root),
                           partial |-> Walk(fs, bad, root).files,
                           err |-> r.err,
                           files |-> r.files]
    /\ UNCHANGED << env, listing, gitDiff, changedFiles, i, dirFiles, j,
                    originalFiles, promptText, stdout, clipboard, diagnostics,
                    calls, writes >>

NextWalk == WalkOnce

SpecWalk == InitWalk /\ [][NextWalk]_vars

\* ---------------------------------------------------------------- claims
SeqRange(q) == { q[k] : k \in 1..Len(q) }
NonEmpty(q) == SelectSeq(q, LAMBDA f : f # Empty)
Count(q, P(_)) == Len(SelectSeq(q, P))

\* Both listings of GetChangedFiles succeeded.
Listed ==
    /\ \E k \in 1..Len(calls) :
          calls[k].op = "git diff --name-only" /\ ~calls[k].err
    /\ includeUntracked =>
          \E k \in 1..Len(calls) : calls[k].op = "git ls-files" /\ ~calls[k].err

\* C1: whatever "git show" and the local read do, processFile returns text:
\* the content at the revision, the local content or the placeholder; and
\* main never dies in it.
C1_ResolveReturnsText ==
    /\ \A k \in 1..Len(writes) :
          writes[k].content \in { RevContent(writes[k].file),
                                  LocalContent(writes[k].file), Placeholder }
    /\ \A p \in DOMAIN originalFiles :
          originalFiles[p] \in { RevContent(p), LocalContent(p), Placeholder }
    /\ pc = "fatal" => calls[Len(calls)].op \notin { "git show", "read" }

\* C1 witness: the run ended after a processFile in which both sources failed.
C1_Witness ==
    /\ pc = "exit0"
    /\ \E k \in 1..Len(writes) : writes[k].bothErr /\ writes[k].content = Placeholder

FatalOps ==
    { "git diff", "git diff --name-only", "git ls-files", "pbcopy pipe",
      "pbcopy start" }

\* C4: main dies only on a failure of "git diff", of the listings or of
\* pbcopy; after the listings, whatever fails for an entry, every entry is
\* classified and the document is printed.
C4_OnlyTopLevelFailuresAreFatal ==
    /\ pc = "fatal" =>
          calls[Len(calls)].err /\ calls[Len(calls)].op \in FatalOps
    /\ (Listed /\ pc \in { "copy", "exit0", "fatal" }) =>
          /\ promptText # << >>
          /\ stdout # << >>
          /\ stdout[1] = promptText[1]
          /\ i = Len(changedFiles) + 1
          /\ Count(calls, LAMBDA c : c.op = "stat") = Len(NonEmpty(changedFiles))

\* C4 witness: the run ended well although the classification of one entry
\* failed, and a later entry was resolved.
C4_Witness ==
    /\ pc = "exit0"
    /\ \E k \in 1..Len(calls) : \E n \in (k + 1)..Len(calls) :
          /\ calls[k].op = "stat" /\ calls[k].err
          /\ calls[n].op = "git show"

\* C5: an entry whose classification failed (and never succeeded) is in
\* neither the changed files nor the contents of the document.
C5_FailedEntryNotInChangeSet ==
    promptText # << >> =>
        \A k \in 1..Len(calls) :
            ( /\ calls[k].op = "stat"
              /\ calls[k].err
              /\ \A n \in 1..Len(calls) :
                    (calls[n].op = "stat" /\ calls[n].arg = calls[k].arg)
                        => calls[n].err )
            => /\ calls[k].arg \notin SeqRange(promptText[1].changedFiles)
               /\ calls[k].arg \notin DOMAIN promptText[1].files

\* C6: no changed file of the document is a directory.
C6_ChangeSetHasNoDirectory ==
    promptText # << >> =>
        \A e \in SeqRange(promptText[1].changedFiles) : KindOf(fs, e) # "dir"

\* The value the last processFile for path p returned.
LastWritten(p) ==
    LET ks == { k \in 1..Len(writes) : writes[k].file = p }
    IN  writes[CHOOSE k \in ks : \A n \in ks : n <= k].content

\* C7: the entries of changedFiles are the tracked paths in the order listed,
\* then (with includeUntracked) the untracked paths in the order listed;
\* without includeUntracked "git ls-files" is not run; the entries are
\* resolved in that order and originalFiles holds for every path the value
\* written last.
C7_OrderAndLastWriteWins ==
    /\ Listed =>
          NonEmpty(changedFiles) =
              IF includeUntracked THEN trackedPaths \o untrackedPaths
                                  ELSE trackedPaths
    /\ ~includeUntracked =>
          \A k \in 1..Len(calls) : calls[k].op # "git ls-files"
    /\ \A k \in 1..Len(writes) : \A n \in k..Len(writes) :
          writes[k].entry <= writes[n].entry
    /\ \A k \in 1..Len(writes) :
          IsPrefix(changedFiles[writes[k].entry], writes[k].file)
    /\ DOMAIN originalFiles = { writes[k].file : k \in 1..Len(writes) }
    /\ \A p \in DOMAIN originalFiles : originalFiles[p] = LastWritten(p)

\* C7 witness: tracked and untracked paths were listed, and a path was
\* written twice with different content.
C7_Witness ==
    /\ includeUntracked /\ trackedPaths # << >> /\ untrackedPaths # << >>
    /\ \E k \in 1..Len(writes) : \E n \in (k + 1)..Len(writes) :
          /\ writes[k].file = writes[n].file
          /\ writes[k].content # writes[n].content
          /\ writes[k].entry < writes[n].entry

Blank(out) == out \in { Empty, << NL >> }

\* C8: a listing whose output is empty or one blank line yields no entry:
\* with blank tracked output changedFiles is exactly the untracked entries,
\* with blank untracked output exactly the tracked entries.
C8_BlankOutputIsNoEntry ==
    Listed =>
        /\ (Blank(trackedOut) /\ ~includeUntracked) => changedFiles = << >>
        /\ (Blank(trackedOut) /\ includeUntracked) =>
              /\ Blank(untrackedOut) => changedFiles = << >>
              /\ NonEmpty(changedFiles) = untrackedPaths
              /\ changedFiles # << >> => changedFiles[1] # Empty
        /\ (includeUntracked /\ Blank(untrackedOut)) =>
              /\ NonEmpty(changedFiles) = trackedPaths
              /\ changedFiles # << >> => changedFiles[Len(changedFiles)] # Empty

\* C8 witness: the tracked listing printed one blank line and the untracked
\* listing named a path.
C8_Witness ==
    /\ Listed
    /\ includeUntracked
    /\ trackedOut = << NL >>
    /\ untrackedPaths # << >>
    /\ changedFiles = untrackedPaths

\* C9: a walk that meets no unreadable path returns exactly the paths from
\* the root down that are no directories and lie below no directory named
\* ".git", each once.
C9_WalkListsFilesOutsideGitDirs ==
    (pc = "walked" /\ ~lastWalk.fails) =>
        /\ ~lastWalk.err
        /\ SeqRange(lastWalk.files) =
              { p \in Tried(fs, lastWalk.root) : KindOf(fs, p) = "file" }
        /\ Cardinality(SeqRange(lastWalk.files)) = Len(lastWalk.files)
        /\ \A f \in SeqRange(lastWalk.files) :
              /\ KindOf(fs, f) # "dir"
              /\ \A q \in DOMAIN fs :
                    (IsPrefix(lastWalk.root, q) /\ IsPrefix(q \o << Sep >>, f))
                        => ~(KindOf(fs, q) = "dir" /\ Base(q) = GitDir)

\* C9 witness: a walk of d, which holds a file below d/.git and a file below
\* d/s, returned two files or more.
C9_Witness ==
    /\ pc = "walked"
    /\ ~lastWalk.err
    /\ lastWalk.root = << "d" >>
    /\ fs[<< "d", Sep, GitDir, Sep, "a" >>] = "file"
    /\ fs[<< "d", Sep, "s", Sep, "a" >>] = "file"
    /\ Len(lastWalk.files) >= 2

\* C10: when the walk of a directory entry meets an unreadable path,
\* GetAllFilesInDirectory returns an error and no files, main logs one
\* warning for the directory and goes on to the next entry, and no file of
\* the directory is resolved.
C10_FailedWalkSkipsDirectory ==
    /\ (calls # << >> /\ calls[Len(calls)].op = "walk" /\ lastWalk.fails) =>
          /\ lastWalk.err
          /\ lastWalk.files = << >>
          /\ pc \notin { "dirFiles", "fatal" }
          /\ i > lastWalk.entry
          /\ changedFiles[lastWalk.entry] = lastWalk.root
          /\ \A k \in 1..Len(writes) : writes[k].entry # lastWalk.entry
          /\ diagnostics # << >>
          /\ diagnostics[Len(diagnostics)] = Warning("walk", lastWalk.root)
    /\ Count(diagnostics, LAMBDA d : d.kind = "walk")
          = Count(calls, LAMBDA c : c.op = "walk" /\ c.err)
    /\ \A k \in 1..(Len(calls) - 1) :
          (calls[k].op = "walk" /\ calls[k].err)
              => calls[k + 1].op \notin { "git show", "read" }

\* C10 witness: a walk failed after the callback had appended a file, the
\* run went on and resolved a later entry.
C10_Witness ==
    /\ lastWalk.fails
    /\ lastWalk.partial # << >>
    /\ lastWalk.files = << >>
    /\ \E k \in 1..Len(calls) : \E n \in (k + 1)..Len(calls) :
          /\ calls[k].op = "walk" /\ calls[k].err
          /\ calls[n].op = "git show"
    /\ pc = "exit0"

====
